---------------------------- MODULE Spec2Model ----------------------------
(***************************************************************************)
(* MelloOS kernel multitasking core: the three-level priority ready-queue  *)
(* bank with its sleep table (kernel/src/sched/priority.rs), the           *)
(* round-robin scheduler core with its locks and context switches          *)
(* (kernel/src/sched/mod.rs), and the system call path: the int 0x80 entry *)
(* stub, the dispatcher and the handlers (kernel/src/sys/syscall.rs).      *)
(***************************************************************************)
EXTENDS Integers, Sequences, FiniteSets, TLC

(***************************************************************************)
(* Bounds.  The source sets MAX_TASKS = 64 twice: priority.rs:7 (capacity  *)
(* of the three ready queues and of the sleep table) and mod.rs:15         *)
(* (capacity of the run queue and of the task table, and the limit on      *)
(* TaskIds).  The model keeps both and scales them down, so that full      *)
(* queues, a full sleep table and index wrap-around are reached.           *)
(* Tick counts stay far below 2^64: u64 overflow of current_tick + ticks   *)
(* is outside the model.                                                   *)
(***************************************************************************)
MAX_TASKS == 2
SCHED_MAX_TASKS == 3
MaxTick == 2
MaxSleep == 2
MaxSyscalls == 3
MaxRun == 4
MaxPreempt == 2
MaxArg == 2
MaxSyscallId == 6

Low == 0
Normal == 1
High == 2
TaskPriority == {Low, Normal, High}

\* Option<TaskId>::None
None == -1
\* every index of the task table; 0 is the idle task
AllTaskIds == 0..(SCHED_MAX_TASKS - 1)
\* the TaskIds spawn_task hands out
TaskIds == 1..(SCHED_MAX_TASKS - 1)
\* tick counts a caller passes to sleep
SleepTicks == 1..MaxSleep

VARIABLES
    priority_sched,   \* SCHED.priority_sched, the PriorityScheduler (priority.rs:101-117)
    SCHED,            \* SchedState: runqueue, current, next_tid (mod.rs:104-113)
    TASK_TABLE,       \* the task control blocks by TaskId, NullTask for an empty slot
    METRICS,          \* KernelMetrics: syscall_count, sleep_count (sys/mod.rs:9-19)
    suspended,        \* per task: the sys_sleep call it is suspended in, or NoCall
    last,             \* the last system call completed: caller, argument, result
    run_order,        \* the tasks made current by successive scheduler ticks
    panicked,         \* the kernel has panicked (halted)
    obs,              \* what has been observed of the kernel: the last timer interrupt,
                      \* the dispatcher calls made, the TaskIds spawn_task returned
    cpu               \* the processor: whose code it executes, the tasks' saved
                      \* contexts, the spinlocks held; followed for the scheduler
                      \* ticks of the round-robin core and for the lock steps

vars == <<priority_sched, SCHED, TASK_TABLE, METRICS, suspended, last, run_order, panicked,
          obs, cpu>>

----------------------------------------------------------------------------
(* priority.rs: TaskPriority, TaskQueue *)

as_index(priority) == priority

TaskQueue_new ==
    [tasks |-> [i \in 0..(MAX_TASKS - 1) |-> 0], head |-> 0, tail |-> 0, count |-> 0]

\* push_back that never refuses: on a full queue it overwrites the front entry
push_back_overwrite(self, task_id) ==
    IF self.count >= MAX_TASKS
    THEN [self |-> [self EXCEPT !.tasks[self.tail] = task_id,
                                !.tail = (self.tail + 1) % MAX_TASKS,
                                !.head = (self.head + 1) % MAX_TASKS],
          ret |-> TRUE]
    ELSE [self |-> [self EXCEPT !.tasks[self.tail] = task_id,
                                !.tail = (self.tail + 1) % MAX_TASKS,
                                !.count = self.count + 1],
          ret |-> TRUE]

push_back(self, task_id) ==
    IF self.count >= MAX_TASKS
    THEN [self |-> self, ret |-> FALSE]
    ELSE [self |-> [self EXCEPT !.tasks[self.tail] = task_id,
                                !.tail = (self.tail + 1) % MAX_TASKS,
                                !.count = self.count + 1],
          ret |-> TRUE]

\* a stack instead of a queue: takes the entry pushed last
pop_front_lifo(self) ==
    IF self.count = 0
    THEN [self |-> self, ret |-> None]
    ELSE [self |-> [self EXCEPT !.tail = (self.tail + MAX_TASKS - 1) % MAX_TASKS,
                                !.count = self.count - 1],
          ret |-> self.tasks[(self.tail + MAX_TASKS - 1) % MAX_TASKS]]

pop_front(self) ==
    IF self.count = 0
    THEN [self |-> self, ret |-> None]
    ELSE [self |-> [self EXCEPT !.head = (self.head + 1) % MAX_TASKS,
                                !.count = self.count - 1],
          ret |-> self.tasks[self.head]]

TaskQueue_len(self) == self.count

TaskQueue_is_empty(self) == self.count = 0

----------------------------------------------------------------------------
(* priority.rs: SleepingTask, PriorityScheduler *)

SleepingTask_empty ==
    [task_id |-> 0, wake_tick |-> 0, priority |-> Normal, valid |-> FALSE]

PriorityScheduler_new ==
    [ready_queues |-> [p \in TaskPriority |-> TaskQueue_new],
     non_empty_queues |-> 0,
     sleeping_tasks |-> [i \in 0..(MAX_TASKS - 1) |-> SleepingTask_empty],
     current_tick |-> 0,
     preempt_disable_count |-> 0]

\* bit operations on the u8 bitmap: (b & (1 << i)) != 0, b | (1 << i), b & !(1 << i)
Pow2(i) == IF i = 0 THEN 1 ELSE IF i = 1 THEN 2 ELSE 4
BitTest(b, i) == (b \div Pow2(i)) % 2 = 1
BitSet(b, i) == IF BitTest(b, i) THEN b ELSE b + Pow2(i)
BitClear(b, i) == IF BitTest(b, i) THEN b - Pow2(i) ELSE b

\* enqueue_task without the bitmap update
enqueue_task_no_bitmap(self, task_id, priority) ==
    LET index == as_index(priority)
        r == push_back(self.ready_queues[index], task_id)
    IN  IF r.ret
        THEN [self |-> [self EXCEPT !.ready_queues[index] = r.self], ret |-> TRUE]
        ELSE [self |-> self, ret |-> FALSE]

enqueue_task(self, task_id, priority) ==
    LET index == as_index(priority)
        r == push_back(self.ready_queues[index], task_id)
    IN  IF r.ret
        THEN [self |-> [self EXCEPT !.ready_queues[index] = r.self,
                                    !.non_empty_queues = BitSet(@, index)],
              ret |-> TRUE]
        ELSE [self |-> self, ret |-> FALSE]

\* the body of the loop `for priority_index in (0..=2).rev()`, from priority_index down
RECURSIVE select_next_from(_, _)
select_next_from(self, priority_index) ==
    IF priority_index < 0
    THEN [self |-> self, ret |-> None]
    ELSE IF BitTest(self.non_empty_queues, priority_index)
         THEN LET r == pop_front(self.ready_queues[priority_index])
              IN  IF r.ret # None
                  THEN [self |-> [self EXCEPT
                                    !.ready_queues[priority_index] = r.self,
                                    !.non_empty_queues =
                                        IF TaskQueue_is_empty(r.self)
                                        THEN BitClear(@, priority_index) ELSE @],
                        ret |-> r.ret]
                  ELSE select_next_from(
                           [self EXCEPT !.non_empty_queues = BitClear(@, priority_index)],
                           priority_index - 1)
         ELSE select_next_from(self, priority_index - 1)

\* select_next scanning the priorities upwards: Low, Normal, High
select_next_low_first(self) ==
    IF self.non_empty_queues = 0
    THEN [self |-> self, ret |-> None]
    ELSE LET p == CHOOSE i \in TaskPriority :
                      /\ BitTest(self.non_empty_queues, i)
                      /\ \A j \in TaskPriority :
                            BitTest(self.non_empty_queues, j) => i <= j
             r == pop_front(self.ready_queues[p])
         IN  [self |-> [self EXCEPT !.ready_queues[p] = r.self,
                                    !.non_empty_queues =
                                        IF TaskQueue_is_empty(r.self)
                                        THEN BitClear(@, p) ELSE @],
              ret |-> r.ret]

select_next(self) == select_next_from(self, 2)

PriorityScheduler_is_empty(self) == self.non_empty_queues = 0

PriorityScheduler_len(self) ==
    TaskQueue_len(self.ready_queues[0]) + TaskQueue_len(self.ready_queues[1])
        + TaskQueue_len(self.ready_queues[2])

\* index of the first slot with !valid, MAX_TASKS when there is none
RECURSIVE first_free_slot(_, _)
first_free_slot(self, i) ==
    IF i >= MAX_TASKS THEN MAX_TASKS
    ELSE IF ~self.sleeping_tasks[i].valid THEN i
    ELSE first_free_slot(self, i + 1)

sleep_task(self, task_id, ticks, priority) ==
    LET wake_tick == self.current_tick + ticks
        i == first_free_slot(self, 0)
    IN  IF i < MAX_TASKS
        THEN [self |-> [self EXCEPT !.sleeping_tasks[i] =
                            [task_id |-> task_id, wake_tick |-> wake_tick,
                             priority |-> priority, valid |-> TRUE]],
              ret |-> TRUE]
        ELSE [self |-> self, ret |-> FALSE]

\* first pass of wake_sleeping_tasks, from slot i on: st is
\* [self, tasks_to_wake, woken_count]
RECURSIVE wake_collect(_, _)
wake_collect(st, i) ==
    IF i >= MAX_TASKS THEN st
    ELSE LET slot == st.self.sleeping_tasks[i]
         IN  IF slot.valid /\ slot.wake_tick <= st.self.current_tick
             THEN wake_collect(
                    [self |-> [st.self EXCEPT !.sleeping_tasks[i].valid = FALSE],
                     tasks_to_wake |->
                        IF Len(st.tasks_to_wake) < MAX_TASKS
                        THEN Append(st.tasks_to_wake, <<slot.task_id, slot.priority>>)
                        ELSE st.tasks_to_wake,
                     woken_count |-> st.woken_count + 1],
                    i + 1)
             ELSE wake_collect(st, i + 1)

\* second pass: enqueue tasks_to_wake[i..], results ignored
RECURSIVE wake_enqueue(_, _, _)
wake_enqueue(self, tasks_to_wake, i) ==
    IF i > Len(tasks_to_wake) THEN self
    ELSE wake_enqueue(
            enqueue_task(self, tasks_to_wake[i][1], tasks_to_wake[i][2]).self,
            tasks_to_wake, i + 1)

wake_sleeping_tasks(self) ==
    LET st == wake_collect([self |-> self, tasks_to_wake |-> <<>>, woken_count |-> 0], 0)
    IN  [self |-> wake_enqueue(st.self, st.tasks_to_wake, 1), ret |-> st.woken_count]

\* a tick that counts double
tick_twice(self) == [self EXCEPT !.current_tick = @ + 2]

PriorityScheduler_tick(self) == [self EXCEPT !.current_tick = @ + 1]

PriorityScheduler_preempt_disable(self) == [self EXCEPT !.preempt_disable_count = @ + 1]

\* preempt_enable without the test for zero
preempt_enable_unchecked(self) == [self EXCEPT !.preempt_disable_count = @ - 1]

PriorityScheduler_preempt_enable(self) ==
    IF self.preempt_disable_count > 0
    THEN [self EXCEPT !.preempt_disable_count = @ - 1]
    ELSE self

\* preemption allowed whatever the counter says
can_preempt_always(self) == self.preempt_disable_count >= 0

can_preempt(self) == self.preempt_disable_count = 0

----------------------------------------------------------------------------
(* sched/mod.rs: the run queue, the task table, spawn_task, schedule_next, tick *)

RunQueue_new ==
    [tasks |-> [i \in 0..(SCHED_MAX_TASKS - 1) |-> 0], head |-> 0, tail |-> 0, count |-> 0]

runqueue_push_back(self, task_id) ==
    IF self.count >= SCHED_MAX_TASKS
    THEN [self |-> self, ret |-> FALSE]
    ELSE [self |-> [self EXCEPT !.tasks[self.tail] = task_id,
                                !.tail = (self.tail + 1) % SCHED_MAX_TASKS,
                                !.count = self.count + 1],
          ret |-> TRUE]

\* a stack instead of a queue: takes the id pushed last
runqueue_pop_front_lifo(self) ==
    IF self.count = 0
    THEN [self |-> self, ret |-> None]
    ELSE LET t == (self.tail + SCHED_MAX_TASKS - 1) % SCHED_MAX_TASKS
         IN  [self |-> [self EXCEPT !.tail = t, !.count = self.count - 1],
              ret |-> self.tasks[t]]

runqueue_pop_front(self) ==
    IF self.count = 0
    THEN [self |-> self, ret |-> None]
    ELSE [self |-> [self EXCEPT !.head = (self.head + 1) % SCHED_MAX_TASKS,
                                !.count = self.count - 1],
          ret |-> self.tasks[self.head]]

SchedState_new == [runqueue |-> RunQueue_new, current |-> None, next_tid |-> 1]

\* TaskPtr::null()
NullTask == [state |-> "null", priority |-> Normal]

\* the fields of a fresh task control block the scheduler reads
Task_new(priority) == [state |-> "Ready", priority |-> priority]

KernelMetrics_new == [syscall_count |-> [i \in 0..4 |-> 0], sleep_count |-> 0]

\* the kernel's global state as one value
kernel ==
    [SCHED |-> SCHED, TASK_TABLE |-> TASK_TABLE, priority_sched |-> priority_sched,
     METRICS |-> METRICS, panicked |-> panicked]

\* the state init_scheduler leaves: empty run queue, only the idle task in the table
\* init_scheduler that also puts the idle task on the run queue
init_scheduler_enqueue_idle ==
    [SCHED |-> [SchedState_new EXCEPT !.runqueue = runqueue_push_back(@, 0).self],
     TASK_TABLE |-> [i \in AllTaskIds |-> IF i = 0 THEN Task_new(Normal) ELSE NullTask],
     priority_sched |-> PriorityScheduler_new,
     METRICS |-> KernelMetrics_new,
     panicked |-> FALSE]

init_scheduler ==
    [SCHED |-> SchedState_new,
     TASK_TABLE |-> [i \in AllTaskIds |-> IF i = 0 THEN Task_new(Normal) ELSE NullTask],
     priority_sched |-> PriorityScheduler_new,
     METRICS |-> KernelMetrics_new,
     panicked |-> FALSE]

\* spawn_task without step 4: the new task is not put on the run queue
spawn_task_no_enqueue(k, priority, alloc_ok) ==
    LET task_id == k.SCHED.next_tid
    IN  IF task_id >= SCHED_MAX_TASKS
        THEN [k |-> [k EXCEPT !.panicked = TRUE], ret |-> None]
        ELSE IF ~alloc_ok
        THEN [k |-> [k EXCEPT !.SCHED.next_tid = @ + 1, !.panicked = TRUE], ret |-> None]
        ELSE [k |-> [k EXCEPT !.SCHED.next_tid = @ + 1,
                              !.TASK_TABLE[task_id] = Task_new(priority)],
              ret |-> task_id]

\* alloc_ok: whether kmalloc returns a non-null pointer
spawn_task(k, priority, alloc_ok) ==
    LET task_id == k.SCHED.next_tid
        r == runqueue_push_back(k.SCHED.runqueue, task_id)
    IN  IF task_id >= SCHED_MAX_TASKS
        THEN [k |-> [k EXCEPT !.panicked = TRUE], ret |-> None]
        ELSE IF ~alloc_ok
        THEN [k |-> [k EXCEPT !.SCHED.next_tid = @ + 1, !.panicked = TRUE], ret |-> None]
        ELSE IF ~r.ret
        THEN [k |-> [k EXCEPT !.SCHED.next_tid = @ + 1,
                              !.TASK_TABLE[task_id] = Task_new(priority),
                              !.panicked = TRUE],
              ret |-> None]
        ELSE [k |-> [k EXCEPT !.SCHED.next_tid = @ + 1,
                              !.TASK_TABLE[task_id] = Task_new(priority),
                              !.SCHED.runqueue = r.self],
              ret |-> task_id]

runqueue_clear(self) == [self EXCEPT !.head = 0, !.tail = 0, !.count = 0]

\* init_scheduler called on a kernel that is already up, as the manual tests
\* do before each test; alloc_ok: whether kmalloc returns a non-null pointer
init_scheduler_call(k, alloc_ok) ==
    LET k1 == [k EXCEPT !.SCHED.runqueue = runqueue_clear(@),
                        !.SCHED.current = None,
                        !.SCHED.next_tid = 1,
                        !.TASK_TABLE = [i \in AllTaskIds |-> NullTask]]
    IN  IF ~alloc_ok
        THEN [k1 EXCEPT !.panicked = TRUE]
        ELSE [k1 EXCEPT !.TASK_TABLE[0] = Task_new(Normal)]

\* Some(task) iff the id is in range and its slot is not null
get_task(k, id) == id >= 0 /\ id < SCHED_MAX_TASKS /\ k.TASK_TABLE[id] # NullTask

\* Option<(old_task, new_task)>::None
NoTasks == [some |-> FALSE, old |-> None, new |-> None]

\* schedule_next without the outgoing task's Running -> Ready update
schedule_next_keep_running(k) ==
    LET old_task_id == k.SCHED.current
        k1 == IF old_task_id # None
              THEN [k EXCEPT !.SCHED.runqueue = runqueue_push_back(@, old_task_id).self]
              ELSE k
        p == runqueue_pop_front(k1.SCHED.runqueue)
        next_task_id == p.ret
        k2 == [k1 EXCEPT !.SCHED.runqueue = p.self, !.SCHED.current = next_task_id]
    IN  IF next_task_id = None
        THEN [k |-> k1, ret |-> NoTasks]
        ELSE IF ~get_task(k2, next_task_id)
        THEN [k |-> k2, ret |-> NoTasks]
        ELSE [k |-> [k2 EXCEPT !.TASK_TABLE[next_task_id].state = "Running"],
              ret |-> IF old_task_id # None /\ get_task(k2, old_task_id)
                      THEN [some |-> TRUE, old |-> old_task_id, new |-> next_task_id]
                      ELSE NoTasks]

\* schedule_next that does not put the outgoing task back on the run queue
schedule_next_no_requeue(k) ==
    LET old_task_id == k.SCHED.current
        k1 == IF old_task_id # None
              THEN [k EXCEPT !.TASK_TABLE[old_task_id].state =
                                 IF get_task(k, old_task_id) THEN "Ready" ELSE @]
              ELSE k
        p == runqueue_pop_front(k1.SCHED.runqueue)
        next_task_id == p.ret
        k2 == [k1 EXCEPT !.SCHED.runqueue = p.self, !.SCHED.current = next_task_id]
    IN  IF next_task_id = None
        THEN [k |-> k1, ret |-> NoTasks]
        ELSE IF ~get_task(k2, next_task_id)
        THEN [k |-> k2, ret |-> NoTasks]
        ELSE [k |-> [k2 EXCEPT !.TASK_TABLE[next_task_id].state = "Running"],
              ret |-> IF old_task_id # None /\ get_task(k2, old_task_id)
                      THEN [some |-> TRUE, old |-> old_task_id, new |-> next_task_id]
                      ELSE NoTasks]

\* ret: [some, old, new] for Some((old_task, new_task)), NoTasks for None
schedule_next(k) ==
    LET old_task_id == k.SCHED.current
        k1 == IF old_task_id # None
              THEN [k EXCEPT !.TASK_TABLE[old_task_id].state =
                                 IF get_task(k, old_task_id) THEN "Ready" ELSE @,
                             !.SCHED.runqueue =
                                 runqueue_push_back(@, old_task_id).self]
              ELSE k
        p == runqueue_pop_front(k1.SCHED.runqueue)
        next_task_id == p.ret
        k2 == [k1 EXCEPT !.SCHED.runqueue = p.self, !.SCHED.current = next_task_id]
    IN  IF next_task_id = None
        THEN [k |-> k1, ret |-> NoTasks]
        ELSE IF ~get_task(k2, next_task_id)
        THEN [k |-> k2, ret |-> NoTasks]
        ELSE [k |-> [k2 EXCEPT !.TASK_TABLE[next_task_id].state = "Running"],
              ret |-> IF old_task_id # None /\ get_task(k2, old_task_id)
                      THEN [some |-> TRUE, old |-> old_task_id, new |-> next_task_id]
                      ELSE NoTasks]

\* tick(): schedule_next, then context_switch(old, new) when it returned Some
tick(k) == schedule_next(k)

----------------------------------------------------------------------------
(* The timer interrupt and the scheduler entry points sys_sleep calls.     *)
(* Their code is not among the sources; they follow the specification.     *)

\* tick(): advance current_tick, wake expired sleepers, schedule if preemptible
timer_interrupt(k) ==
    LET ps == wake_sleeping_tasks(PriorityScheduler_tick(k.priority_sched)).self
        k1 == [k EXCEPT !.priority_sched = ps]
    IN  IF can_preempt(ps) THEN tick(k1).k ELSE k1

\* Some((current, its priority)), None when no task is current
get_current_task_info(k) ==
    IF k.SCHED.current = None
    THEN [some |-> FALSE, task_id |-> None, priority |-> Normal]
    ELSE [some |-> TRUE, task_id |-> k.SCHED.current,
          priority |-> k.TASK_TABLE[k.SCHED.current].priority]

\* record current in the sleep table and mark it Sleeping; false when the table
\* is full.  It returns to sys_sleep, which counts the sleep and then switches
\* away through yield_now (syscall.rs:230-241)
sleep_current_task(k, ticks, priority) ==
    LET r == sleep_task(k.priority_sched, k.SCHED.current, ticks, priority)
    IN  IF r.ret
        THEN [k |-> [k EXCEPT !.priority_sched = r.self,
                              !.TASK_TABLE[k.SCHED.current].state = "Sleeping"],
              ret |-> TRUE]
        ELSE [k |-> k, ret |-> FALSE]

\* a voluntary tick: re-enqueue current, select next, context-switch
yield_now(k) == tick(k).k

----------------------------------------------------------------------------
(* sys/mod.rs, sys/syscall.rs *)

SYS_SLEEP == 2

\* counts an unknown id in the last entry
increment_syscall_clamped(k, syscall_id) ==
    [k EXCEPT !.METRICS.syscall_count[IF syscall_id < 5 THEN syscall_id ELSE 4] = @ + 1]

increment_syscall(k, syscall_id) ==
    IF syscall_id < 5
    THEN [k EXCEPT !.METRICS.syscall_count[syscall_id] = @ + 1]
    ELSE k

\* counts the sleep before it knows whether the scheduler accepted it
sys_sleep_count_first(k, ticks) ==
    LET info == get_current_task_info(k)
        k1 == [k EXCEPT !.METRICS.sleep_count = @ + 1]
        s == sleep_current_task(k1, ticks, info.priority)
    IN  IF ticks = 0 THEN [k |-> k, ret |-> 0, yielded |-> FALSE]
        ELSE IF ~info.some THEN [k |-> k, ret |-> -1, yielded |-> FALSE]
        ELSE IF ~s.ret THEN [k |-> k1, ret |-> -1, yielded |-> FALSE]
        ELSE [k |-> yield_now(s.k), ret |-> 0, yielded |-> TRUE]

\* ret: the value returned; yielded: the caller went through yield_now, so it
\* returns ret only once it is running again
sys_sleep(k, ticks) ==
    LET info == get_current_task_info(k)
        s == sleep_current_task(k, ticks, info.priority)
    IN  IF ticks = 0 THEN [k |-> k, ret |-> 0, yielded |-> FALSE]
        ELSE IF ~info.some THEN [k |-> k, ret |-> -1, yielded |-> FALSE]
        ELSE IF ~s.ret THEN [k |-> k, ret |-> -1, yielded |-> FALSE]
        ELSE [k |-> yield_now([s.k EXCEPT !.METRICS.sleep_count = @ + 1]),
              ret |-> 0, yielded |-> TRUE]

\* syscall_dispatcher(SYS_SLEEP, ticks, _, _)
syscall_dispatcher_sleep(k, ticks) == sys_sleep(increment_syscall(k, SYS_SLEEP), ticks)

SYS_WRITE == 0
SYS_EXIT == 1
SYS_IPC_SEND == 3
SYS_IPC_RECV == 4

\* what a caller may put in the accumulator, and in an argument register
SyscallIds == 0..MaxSyscallId
ArgValues == 0..MaxArg

\* the memory a buffer argument points into: addresses 1..2*MaxArg, one byte
\* each; the byte at address 2 (0xFF) occurs in no UTF-8 text
MEMORY == [a \in 1..(2 * MaxArg) |-> IF a = 2 THEN 255 ELSE 64 + a]

\* core::slice::from_raw_parts(buf_ptr as *const u8, len)
from_raw_parts(buf_ptr, len) == [i \in 1..len |-> MEMORY[buf_ptr + i - 1]]

\* core::str::from_utf8(buffer).is_ok(), for the single-byte codes MEMORY holds
from_utf8_ok(buffer) == \A i \in 1..Len(buffer) : buffer[i] < 128

\* writes to any file descriptor
sys_write_any_fd(fd, buf_ptr, len) ==
    IF buf_ptr = 0 \/ len = 0
    THEN [ret |-> 0, read |-> <<>>, text |-> "none"]
    ELSE LET buffer == from_raw_parts(buf_ptr, len)
         IN  [ret |-> len, read |-> buffer,
              text |-> IF from_utf8_ok(buffer) THEN "buffer" ELSE "[invalid UTF-8]"]

\* ret: the value returned; read: the bytes read from the buffer; text: what
\* goes to the serial log after "[USERLAND] "
sys_write(fd, buf_ptr, len) ==
    IF fd # 0
    THEN [ret |-> -1, read |-> <<>>, text |-> "none"]
    ELSE IF buf_ptr = 0 \/ len = 0
    THEN [ret |-> 0, read |-> <<>>, text |-> "none"]
    ELSE LET buffer == from_raw_parts(buf_ptr, len)
         IN  [ret |-> len, read |-> buffer,
              text |-> IF from_utf8_ok(buffer) THEN "buffer" ELSE "[invalid UTF-8]"]

sys_ipc_send(port_id, buf_ptr, len) == -1

sys_ipc_recv(port_id, buf_ptr, len) == -1

\* counts a call only once its handler has succeeded
syscall_dispatcher_count_success(k, syscall_id, arg1, arg2, arg3) ==
    LET s == sys_sleep(k, arg1)
        w == sys_write(arg1, arg2, arg3)
    IN  CASE syscall_id = SYS_WRITE ->
               [k |-> IF w.ret >= 0 THEN increment_syscall(k, syscall_id) ELSE k,
                ret |-> w.ret, yielded |-> FALSE, returns |-> TRUE]
          [] syscall_id = SYS_EXIT ->
               [k |-> k, ret |-> 0, yielded |-> FALSE, returns |-> FALSE]
          [] syscall_id = SYS_SLEEP ->
               [k |-> IF s.ret >= 0 THEN increment_syscall(s.k, syscall_id) ELSE s.k,
                ret |-> s.ret, yielded |-> s.yielded, returns |-> TRUE]
          [] OTHER -> [k |-> k, ret |-> -1, yielded |-> FALSE, returns |-> TRUE]

\* ret: the value returned, when returns; sys_exit never returns (it halts in
\* a loop); yielded: the caller went through yield_now before returning
syscall_dispatcher(k, syscall_id, arg1, arg2, arg3) ==
    LET k1 == increment_syscall(k, syscall_id)
        s == sys_sleep(k1, arg1)
    IN  CASE syscall_id = SYS_WRITE ->
               [k |-> k1, ret |-> sys_write(arg1, arg2, arg3).ret,
                yielded |-> FALSE, returns |-> TRUE]
          [] syscall_id = SYS_EXIT ->
               [k |-> k1, ret |-> 0, yielded |-> FALSE, returns |-> FALSE]
          [] syscall_id = SYS_SLEEP ->
               [k |-> s.k, ret |-> s.ret, yielded |-> s.yielded, returns |-> TRUE]
          [] syscall_id = SYS_IPC_SEND ->
               [k |-> k1, ret |-> sys_ipc_send(arg1, arg2, arg3),
                yielded |-> FALSE, returns |-> TRUE]
          [] syscall_id = SYS_IPC_RECV ->
               [k |-> k1, ret |-> sys_ipc_recv(arg1, arg2, arg3),
                yielded |-> FALSE, returns |-> TRUE]
          [] OTHER ->
               [k |-> k1, ret |-> -1, yielded |-> FALSE, returns |-> TRUE]

----------------------------------------------------------------------------
(* syscall_entry (syscall.rs:19-92), instruction by instruction.  A machine *)
(* is the register file and the stack, top first, in 8-byte slots: the      *)
(* slot at [rsp + off] is stack[off \div 8 + 1].                            *)

CallerSaved == {"rax", "rcx", "rdx", "rsi", "rdi", "r8", "r9", "r10", "r11"}
CalleeSaved == {"rbx", "rbp", "r12", "r13", "r14", "r15"}
Registers == CallerSaved \cup CalleeSaved

\* what the CPU pushes before entering the handler: SS, RSP, RFLAGS, CS, RIP
\* (RIP on top); only RIP varies here
InterruptFrame(rip) == <<rip, 51, 52, 53, 54>>

\* return addresses of the int 0x80 instructions of user code (never 0)
ReturnAddresses == 1..MaxArg

\* a caller-saved register after the call: whatever the callee left there
Clobbered == -2

push(m, reg) == [m EXCEPT !.stack = <<m.regs[reg]>> \o @]

pop(m, reg) == [m EXCEPT !.regs[reg] = Head(m.stack), !.stack = Tail(@)]

mov(m, dst, src) == [m EXCEPT !.regs[dst] = m.regs[src]]

\* mov dst, [rsp + off]
mov_load(m, dst, off) == [m EXCEPT !.regs[dst] = m.stack[(off \div 8) + 1]]

\* add rsp, n
add_rsp(m, n) == [m EXCEPT !.stack = SubSeq(@, (n \div 8) + 1, Len(@))]

step(m, i) ==
    CASE i.op = "push" -> push(m, i.a)
      [] i.op = "pop" -> pop(m, i.a)
      [] i.op = "mov" -> mov(m, i.a, i.b)
      [] i.op = "load" -> mov_load(m, i.a, i.b)
      [] i.op = "add_rsp" -> add_rsp(m, i.b)

RECURSIVE exec(_, _)
exec(m, code) ==
    IF code = <<>> THEN m ELSE exec(step(m, Head(code)), Tail(code))

I1(op, a) == [op |-> op, a |-> a, b |-> 0]
I2(op, a, b) == [op |-> op, a |-> a, b |-> b]

\* lines 27-56: the 15 pushes and the dispatcher's arguments (cld omitted:
\* the direction flag is not modelled)
syscall_entry_save ==
    << I1("push", "rax"), I1("push", "rcx"), I1("push", "rdx"), I1("push", "rsi"),
       I1("push", "rdi"), I1("push", "r8"), I1("push", "r9"), I1("push", "r10"),
       I1("push", "r11"),
       I1("push", "rbx"), I1("push", "rbp"), I1("push", "r12"), I1("push", "r13"),
       I1("push", "r14"), I1("push", "r15"),
       [op |-> "mov", a |-> "rdi", b |-> "rax"],
       I2("load", "rsi", 120),
       I2("load", "rdx", 112),
       I2("load", "rcx", 104) >>

\* the return path without `add rsp, 8`
syscall_entry_restore_no_skip ==
    << [op |-> "mov", a |-> "r15", b |-> "rax"],
       I1("pop", "r15"), I1("pop", "r14"), I1("pop", "r13"), I1("pop", "r12"),
       I1("pop", "rbp"), I1("pop", "rbx"),
       I1("pop", "r11"), I1("pop", "r10"), I1("pop", "r9"), I1("pop", "r8"),
       I1("pop", "rdi"), I1("pop", "rsi"), I1("pop", "rdx"), I1("pop", "rcx"),
       [op |-> "mov", a |-> "rax", b |-> "r15"] >>

\* lines 63-85: from the dispatcher's return to iretq
syscall_entry_restore ==
    << [op |-> "mov", a |-> "r15", b |-> "rax"],
       I1("pop", "r15"), I1("pop", "r14"), I1("pop", "r13"), I1("pop", "r12"),
       I1("pop", "rbp"), I1("pop", "rbx"),
       I1("pop", "r11"), I1("pop", "r10"), I1("pop", "r9"), I1("pop", "r8"),
       I1("pop", "rdi"), I1("pop", "rsi"), I1("pop", "rdx"), I1("pop", "rcx"),
       I2("add_rsp", "rsp", 8),
       [op |-> "mov", a |-> "rax", b |-> "r15"] >>

\* line 59 and syscall_dispatcher_wrapper (98-106): an extern "C" call with
\* arguments in rdi, rsi, rdx, rcx and the result in rax; callee-saved
\* registers and the stack come back as they were
call_dispatcher(m, ret) ==
    [m EXCEPT !.regs = [r \in Registers |->
                          IF r = "rax" THEN ret
                          ELSE IF r \in CallerSaved THEN Clobbered
                          ELSE m.regs[r]]]

\* args: what the dispatcher was called with; regs, stack: the machine at
\* iretq (meaningful when returns)
syscall_entry(k, regs, frame) ==
    LET m1 == exec([regs |-> regs, stack |-> frame], syscall_entry_save)
        args == <<m1.regs["rdi"], m1.regs["rsi"], m1.regs["rdx"], m1.regs["rcx"]>>
        d == syscall_dispatcher(k, args[1], args[2], args[3], args[4])
        m2 == exec(call_dispatcher(m1, d.ret), syscall_entry_restore)
    IN  [k |-> d.k, args |-> args, ret |-> d.ret, yielded |-> d.yielded,
         returns |-> d.returns, regs |-> m2.regs, stack |-> m2.stack]

\* the registers of user code executing int 0x80 as the syscall helper of
\* main.rs:52-64 does: id in rax, arguments in rdi, rsi, rdx; the other
\* registers hold whatever the caller had there
UserRegs(id, arg1, arg2, arg3, r15) ==
    [r \in Registers |->
        CASE r = "rax" -> id
          [] r = "rdi" -> arg1
          [] r = "rsi" -> arg2
          [] r = "rdx" -> arg3
          [] r = "r15" -> r15
          [] r = "rcx" -> 31 [] r = "r8" -> 32 [] r = "r9" -> 33
          [] r = "r10" -> 34 [] r = "r11" -> 35 [] r = "rbx" -> 36
          [] r = "rbp" -> 37 [] r = "r12" -> 38 [] r = "r13" -> 39
          [] r = "r14" -> 40]

----------------------------------------------------------------------------
(* The processor and the saved contexts.  context_switch is called by      *)
(* tick() (mod.rs:320-323) but its code is not among the sources           *)
(* (context.rs holds only CpuContext); it follows the specification: save  *)
(* the CPU state into the old slot, load the CPU state from the new slot.  *)
(* A CPU state is named by the thread of execution it belongs to: the boot *)
(* thread (_start and its final hlt loop) or the thread that began at the  *)
(* entry of task t.                                                        *)

\* the boot thread, which is no task
Boot == -2

\* the context Task::new prepares: the first switch to it enters the task's
\* trampoline and entry point
FreshContext(t) == [thread |-> t, fresh |-> TRUE]

NoSwitch == [old |-> None, new |-> None, held |-> {}]

Cpu_new ==
    [running |-> Boot,
     context |-> [t \in AllTaskIds |-> FreshContext(t)],
     switch |-> NoSwitch,
     held |-> {},
     pc |-> "run",
     spinning |-> FALSE]

context_switch(c, old, new) ==
    LET saved == [c.context EXCEPT ![old] = [thread |-> c.running, fresh |-> FALSE]]
    IN  [c EXCEPT !.context = saved, !.running = saved[new].thread]

\* the spinlock operations of a path, in program order
lock(l) == [op |-> "lock", lock |-> l]
unlock(l) == [op |-> "unlock", lock |-> l]

\* get_task keeps the TASK_TABLE guard leaked (never dropped)
get_task_locks_leaked == <<lock("TASK_TABLE")>>

\* get_task (mod.rs:211-227): the guard taken at line 212 is dropped at each
\* of the three returns
get_task_locks == <<lock("TASK_TABLE"), unlock("TASK_TABLE")>>

\* schedule_next (mod.rs:241-280) on the path it takes in state k: the SCHED
\* guard is dropped by the `?` return at line 257 or by drop(sched) at 263
schedule_next_locks(k) ==
    LET old_task_id == k.SCHED.current
        popped == IF old_task_id # None
                  THEN runqueue_pop_front(
                           runqueue_push_back(k.SCHED.runqueue, old_task_id).self).ret
                  ELSE runqueue_pop_front(k.SCHED.runqueue).ret
    IN  <<lock("SCHED")>>
        \o (IF old_task_id # None THEN get_task_locks ELSE <<>>)
        \o <<unlock("SCHED")>>
        \o (IF popped = None THEN <<>>
            ELSE (IF old_task_id # None THEN get_task_locks ELSE <<>>)
                 \o get_task_locks)

\* tick() up to its context_switch call or its return
tick_locks(k) == schedule_next_locks(k)

\* the locks held after the operations ops, starting with held
RECURSIVE held_after(_, _)
held_after(ops, held) ==
    IF ops = <<>> THEN held
    ELSE held_after(Tail(ops),
                    IF Head(ops).op = "lock" THEN held \cup {Head(ops).lock}
                    ELSE held \ {Head(ops).lock})

\* some lock is taken while it is already held: the taker spins for ever
RECURSIVE relocks(_, _)
relocks(ops, held) ==
    IF ops = <<>> THEN FALSE
    ELSE IF Head(ops).op = "lock"
         THEN Head(ops).lock \in held \/ relocks(Tail(ops), held \cup {Head(ops).lock})
         ELSE relocks(Tail(ops), held \ {Head(ops).lock})

----------------------------------------------------------------------------
(* The kernel as a state machine: boot, spawns, timer interrupts, sys_sleep *)

NoCall == [ticks |-> 0, call_tick |-> -1]
NoSyscall == [task |-> None, ticks |-> 0, call_tick |-> -1, ret |-> 0, ret_tick |-> -1]

\* no timer interrupt seen yet (a seen one has tick >= 1)
NoTimer == [preempt_disable_count |-> 0, current |-> None, waiting |-> 0, tick |-> 0]

\* no preempt_disable / preempt_enable call seen yet
NoPreemptCall == [op |-> "none", count |-> 0]

\* no dispatcher call seen yet
NoDispatch == [syscall_id |-> None, ret |-> 0, returns |-> FALSE]

\* no int 0x80 trap seen yet
NoTrap ==
    [regs |-> [rax |-> None, rdi |-> 0, rsi |-> 0, rdx |-> 0, r15 |-> 0],
     args |-> <<0, 0, 0, 0>>, ret |-> 0, returns |-> FALSE, rax |-> 0,
     preserved |-> {}, frame |-> <<>>, stack |-> <<>>]

NoObs ==
    [timer |-> NoTimer,
     trap |-> NoTrap,
     preempt |-> NoPreemptCall,
     call |-> NoDispatch,
     exited |-> {},
     dispatched |-> [i \in 0..4 |-> 0],
     returned |-> <<>>]

SetKernel(k) ==
    /\ SCHED' = k.SCHED
    /\ TASK_TABLE' = k.TASK_TABLE
    /\ priority_sched' = k.priority_sched
    /\ METRICS' = k.METRICS
    /\ panicked' = k.panicked

Init ==
    /\ SCHED = init_scheduler.SCHED
    /\ TASK_TABLE = init_scheduler.TASK_TABLE
    /\ priority_sched = init_scheduler.priority_sched
    /\ METRICS = init_scheduler.METRICS
    /\ panicked = init_scheduler.panicked
    /\ suspended = [t \in AllTaskIds |-> NoCall]
    /\ last = NoSyscall
    /\ run_order = <<>>
    /\ obs = NoObs
    /\ cpu = Cpu_new

\* a task that becomes current while suspended in sys_sleep returns from it
Resume(k, susp, otherwise) ==
    LET c == k.SCHED.current
    IN  IF c # None /\ susp[c] # NoCall
        THEN /\ suspended' = [susp EXCEPT ![c] = NoCall]
             /\ last' = [task |-> c, ticks |-> susp[c].ticks,
                         call_tick |-> susp[c].call_tick, ret |-> 0,
                         ret_tick |-> k.priority_sched.current_tick]
        ELSE /\ suspended' = susp
             /\ last' = otherwise

SpawnTask ==
    \E priority \in TaskPriority, alloc_ok \in BOOLEAN :
        /\ ~panicked
        /\ LET r == spawn_task(kernel, priority, alloc_ok)
           IN  /\ SetKernel(r.k)
               /\ obs' = IF r.ret # None
                         THEN [obs EXCEPT !.returned = Append(@, r.ret)]
                         ELSE obs
        /\ UNCHANGED <<suspended, last, run_order, cpu>>

TimerInterrupt ==
    /\ ~panicked
    /\ priority_sched.current_tick < MaxTick
    /\ LET k == timer_interrupt(kernel)
       IN  /\ SetKernel(k)
           /\ Resume(k, suspended, last)
           /\ obs' = [obs EXCEPT !.timer =
                        [preempt_disable_count |-> priority_sched.preempt_disable_count,
                         current |-> SCHED.current,
                         waiting |-> SCHED.runqueue.count,
                         tick |-> k.priority_sched.current_tick]]
    /\ UNCHANGED <<run_order, cpu>>

SysSleep ==
    \E ticks \in 0..MaxSleep :
        /\ ~panicked
        /\ METRICS.syscall_count[SYS_SLEEP] < MaxSyscalls
        /\ LET caller == SCHED.current
               now == priority_sched.current_tick
               r == syscall_dispatcher_sleep(kernel, ticks)
           IN  /\ SetKernel(r.k)
               /\ IF r.yielded
                  THEN Resume(r.k,
                              [suspended EXCEPT ![caller] =
                                   [ticks |-> ticks, call_tick |-> now]],
                              last)
                  ELSE /\ suspended' = suspended
                       /\ last' = [task |-> caller, ticks |-> ticks, call_tick |-> now,
                                   ret |-> r.ret, ret_tick |-> now]
        /\ obs' = [obs EXCEPT !.dispatched[SYS_SLEEP] = @ + 1]
        /\ UNCHANGED <<run_order, cpu>>

Next ==
    \/ SpawnTask
    \/ TimerInterrupt
    \/ SysSleep

Spec == Init /\ [][Next]_vars

----------------------------------------------------------------------------
(* The kernel with critical sections: task code also calls the global      *)
(* preempt_disable() and preempt_enable() (priority.rs:262-280)            *)

PreemptFrame ==
    UNCHANGED <<SCHED, TASK_TABLE, METRICS, suspended, last, run_order, panicked, cpu>>

PreemptDisable ==
    /\ ~panicked
    /\ priority_sched.preempt_disable_count < MaxPreempt
    /\ priority_sched' = PriorityScheduler_preempt_disable(priority_sched)
    /\ obs' = [obs EXCEPT !.preempt =
                 [op |-> "disable", count |-> priority_sched.preempt_disable_count]]
    /\ PreemptFrame

PreemptEnable ==
    /\ ~panicked
    /\ priority_sched' = PriorityScheduler_preempt_enable(priority_sched)
    /\ obs' = [obs EXCEPT !.preempt =
                 [op |-> "enable", count |-> priority_sched.preempt_disable_count]]
    /\ PreemptFrame

NextPreempt ==
    \/ SpawnTask
    \/ TimerInterrupt
    \/ SysSleep
    \/ PreemptDisable
    \/ PreemptEnable

SpecPreempt == Init /\ [][NextPreempt]_vars

----------------------------------------------------------------------------
(* The kernel with all its system calls: whatever runs (a task, or the     *)
(* boot code while no task is current) calls syscall_dispatcher, unless it *)
(* is halted in sys_exit                                                   *)

Dispatch ==
    \E syscall_id \in SyscallIds, arg1 \in ArgValues, arg2 \in ArgValues, arg3 \in ArgValues :
        /\ ~panicked
        /\ syscall_id # SYS_WRITE => arg2 = 0 /\ arg3 = 0
        /\ SCHED.current \notin obs.exited
        /\ syscall_id < 5 =>
              obs.dispatched[0] + obs.dispatched[1] + obs.dispatched[2]
                  + obs.dispatched[3] + obs.dispatched[4] < MaxSyscalls
        /\ LET caller == SCHED.current
               now == priority_sched.current_tick
               r == syscall_dispatcher(kernel, syscall_id, arg1, arg2, arg3)
           IN  /\ SetKernel(r.k)
               /\ IF r.yielded
                  THEN Resume(r.k,
                              [suspended EXCEPT ![caller] =
                                   [ticks |-> arg1, call_tick |-> now]],
                              last)
                  ELSE /\ suspended' = suspended
                       /\ last' = IF syscall_id = SYS_SLEEP
                                  THEN [task |-> caller, ticks |-> arg1, call_tick |-> now,
                                        ret |-> r.ret, ret_tick |-> now]
                                  ELSE last
               /\ obs' = [obs EXCEPT
                            !.dispatched = IF syscall_id < 5
                                           THEN [@ EXCEPT ![syscall_id] = @ + 1] ELSE @,
                            !.call = [syscall_id |-> syscall_id,
                                      ret |-> r.ret, returns |-> r.returns],
                            !.exited = IF r.returns THEN @ ELSE @ \cup {caller}]
        /\ UNCHANGED <<run_order, cpu>>

NextSys ==
    \/ SpawnTask
    \/ TimerInterrupt
    \/ Dispatch

SpecSys == Init /\ [][NextSys]_vars

----------------------------------------------------------------------------
(* System calls entered the way user code enters them: through int 0x80    *)
(* and syscall_entry                                                       *)

\* the calls user code makes: a write of a buffer to stdout and one to a bad
\* fd, and every other id with one argument
UserCalls ==
    {<<SYS_WRITE, 0, 1, MaxArg>>, <<SYS_WRITE, 1, 1, 1>>}
        \cup {<<id, MaxArg, 0, 0>> : id \in SyscallIds \ {SYS_WRITE}}

Trap ==
    \E call \in UserCalls, r15 \in {0, MaxArg}, rip \in ReturnAddresses :
        /\ ~panicked
        /\ SCHED.current \notin obs.exited
        /\ obs.dispatched[0] + obs.dispatched[1] + obs.dispatched[2]
                  + obs.dispatched[3] + obs.dispatched[4] < MaxSyscalls
        /\ \E e \in {syscall_entry(kernel, UserRegs(call[1], call[2], call[3], call[4], r15),
                                    InterruptFrame(rip))} :
           LET caller == SCHED.current
               now == priority_sched.current_tick
           IN  /\ SetKernel(e.k)
               /\ IF e.yielded
                  THEN Resume(e.k,
                              [suspended EXCEPT ![caller] =
                                   [ticks |-> e.args[2], call_tick |-> now]],
                              last)
                  ELSE /\ suspended' = suspended
                       /\ last' = IF e.args[1] = SYS_SLEEP
                                  THEN [task |-> caller, ticks |-> e.args[2],
                                        call_tick |-> now,
                                        ret |-> e.ret, ret_tick |-> now]
                                  ELSE last
               /\ obs' = [obs EXCEPT
                            !.dispatched = IF e.args[1] \in 0..4
                                           THEN [@ EXCEPT ![e.args[1]] = @ + 1] ELSE @,
                            !.trap = [regs |-> [rax |-> call[1], rdi |-> call[2],
                                                rsi |-> call[3], rdx |-> call[4],
                                                r15 |-> r15],
                                      args |-> e.args, ret |-> e.ret,
                                      returns |-> e.returns, rax |-> e.regs["rax"],
                                      preserved |->
                                          {r \in Registers : e.regs[r] =
                                              UserRegs(call[1], call[2], call[3],
                                                       call[4], r15)[r]},
                                      frame |-> InterruptFrame(rip),
                                      stack |-> e.stack],
                            !.exited = IF e.returns THEN @ ELSE @ \cup {caller}]
        /\ UNCHANGED <<run_order, cpu>>


----------------------------------------------------------------------------
(* Kernel initialisation code: init_scheduler and spawn_task called in any *)
(* order before interrupts are enabled, as manual_tests::run_all_tests     *)
(* does (mod.rs:530-543)                                                   *)

InitScheduler ==
    \E alloc_ok \in BOOLEAN :
        /\ ~panicked
        /\ Len(obs.returned) < MaxRun
        /\ SetKernel(init_scheduler_call(kernel, alloc_ok))
        /\ UNCHANGED <<suspended, last, run_order, obs, cpu>>

NextBoot ==
    \/ SpawnTask
    \/ InitScheduler

SpecBoot == Init /\ [][NextBoot]_vars

----------------------------------------------------------------------------
(* Task context against the timer interrupt.  A task runs with interrupts  *)
(* enabled (main.rs:151; nothing in the sources disables them again), so   *)
(* an interrupt can be taken between any two of its steps: spawn_task and  *)
(* the global preempt_disable / preempt_enable are split at the points     *)
(* where they hold their spin::Mutex guards.                               *)

\* spawn_task, lines 158-159: both guards taken
SpawnLock ==
    /\ ~panicked /\ ~cpu.spinning
    /\ cpu.pc = "run"
    /\ cpu' = [cpu EXCEPT !.pc = "spawn_task",
                          !.held = @ \cup {"SCHED", "TASK_TABLE"}]
    /\ UNCHANGED <<priority_sched, SCHED, TASK_TABLE, METRICS, suspended, last,
                   run_order, panicked, obs>>

\* spawn_task, lines 161-196: the body, and the guards dropped at the return
SpawnUnlock ==
    \E priority \in TaskPriority, alloc_ok \in BOOLEAN :
        /\ ~panicked /\ ~cpu.spinning
        /\ cpu.pc = "spawn_task"
        /\ LET r == spawn_task(kernel, priority, alloc_ok)
           IN  /\ SetKernel(r.k)
               /\ obs' = IF r.ret # None
                         THEN [obs EXCEPT !.returned = Append(@, r.ret)]
                         ELSE obs
        /\ cpu' = [cpu EXCEPT !.pc = "run", !.held = @ \ {"SCHED", "TASK_TABLE"}]
        /\ UNCHANGED <<suspended, last, run_order>>

\* preempt_disable / preempt_enable, priority.rs:265 and 277: the guard taken
PreemptLock ==
    \E op \in {"preempt_disable", "preempt_enable"} :
        /\ ~panicked /\ ~cpu.spinning
        /\ cpu.pc = "run"
        /\ op = "preempt_disable" => priority_sched.preempt_disable_count < MaxPreempt
        /\ cpu' = [cpu EXCEPT !.pc = op, !.held = @ \cup {"SCHED"}]
        /\ UNCHANGED <<priority_sched, SCHED, TASK_TABLE, METRICS, suspended, last,
                       run_order, panicked, obs>>

\* priority.rs:266-267 and 278-279: the counter updated, the guard dropped
PreemptUnlock ==
    /\ ~panicked /\ ~cpu.spinning
    /\ cpu.pc \in {"preempt_disable", "preempt_enable"}
    /\ priority_sched' = IF cpu.pc = "preempt_disable"
                         THEN PriorityScheduler_preempt_disable(priority_sched)
                         ELSE PriorityScheduler_preempt_enable(priority_sched)
    /\ cpu' = [cpu EXCEPT !.pc = "run", !.held = @ \ {"SCHED"}]
    /\ UNCHANGED <<SCHED, TASK_TABLE, METRICS, suspended, last, run_order, panicked, obs>>

\* a timer interrupt taken wherever the task context is: when its scheduling
\* step asks for a spinlock the interrupted context holds, it spins for ever
LockTimerInterrupt ==
    /\ ~panicked /\ ~cpu.spinning
    /\ priority_sched.current_tick < MaxTick
    /\ LET ps == wake_sleeping_tasks(PriorityScheduler_tick(priority_sched)).self
           k1 == [kernel EXCEPT !.priority_sched = ps]
       IN  IF can_preempt(ps) /\ relocks(tick_locks(k1), cpu.held)
           THEN /\ SetKernel(k1)
                /\ cpu' = [cpu EXCEPT !.spinning = TRUE]
           ELSE /\ SetKernel(timer_interrupt(kernel))
                /\ cpu' = cpu
    /\ UNCHANGED <<suspended, last, run_order, obs>>

NextLock ==
    \/ SpawnLock
    \/ SpawnUnlock
    \/ PreemptLock
    \/ PreemptUnlock
    \/ LockTimerInterrupt

SpecLock == Init /\ [][NextLock]_vars

----------------------------------------------------------------------------
(* The round-robin core alone: spawns and scheduler ticks (mod.rs) *)

SchedTick ==
    /\ ~panicked
    /\ Len(run_order) < MaxRun
    /\ LET r == tick(kernel)
           k == r.k
           held == held_after(tick_locks(kernel), cpu.held)
       IN  /\ SetKernel(k)
           /\ run_order' = Append(run_order,
                                  [current |-> k.SCHED.current,
                                   spawned |-> k.SCHED.next_tid - 1])
           /\ cpu' = IF r.ret.some
                     THEN [context_switch(cpu, r.ret.old, r.ret.new) EXCEPT
                             !.switch = [old |-> r.ret.old, new |-> r.ret.new,
                                         held |-> held]]
                     ELSE [cpu EXCEPT !.switch = [NoSwitch EXCEPT !.held = held]]
    /\ UNCHANGED <<suspended, last, obs>>

NextRR ==
    \/ SpawnTask
    \/ SchedTick

SpecRR == Init /\ [][NextRR]_vars

----------------------------------------------------------------------------
(* The ready-queue bank alone: a kernel whose tasks are all spawned, and    *)
(* the PriorityScheduler's methods called on behalf of those tasks, each   *)
(* with the priority its control block holds.                              *)

RECURSIVE spawn_all(_, _, _)
spawn_all(k, priorities, t) ==
    IF t >= SCHED_MAX_TASKS THEN k
    ELSE spawn_all(spawn_task(k, priorities[t], TRUE).k, priorities, t + 1)

InitBank ==
    /\ \E priorities \in [TaskIds -> TaskPriority] :
          LET k == spawn_all(init_scheduler, priorities, 1)
          IN  /\ SCHED = k.SCHED
              /\ TASK_TABLE = k.TASK_TABLE
              /\ priority_sched = k.priority_sched
              /\ METRICS = k.METRICS
              /\ panicked = k.panicked
    /\ suspended = [t \in AllTaskIds |-> NoCall]
    /\ last = NoSyscall
    /\ run_order = <<>>
    /\ obs = NoObs
    /\ cpu = Cpu_new

\* the tasks run from the state _start leaves behind (main.rs:131-151: the
\* scheduler initialised, the tasks spawned, interrupts enabled)
NextTrap ==
    \/ TimerInterrupt
    \/ Trap

SpecTrap == InitBank /\ [][NextTrap]_vars

BankFrame ==
    UNCHANGED <<SCHED, TASK_TABLE, METRICS, suspended, last, run_order, panicked, obs, cpu>>

EnqueueTask ==
    \E task_id \in TaskIds :
        /\ priority_sched' =
              enqueue_task(priority_sched, task_id, TASK_TABLE[task_id].priority).self
        /\ BankFrame

SelectNext ==
    /\ priority_sched' = select_next(priority_sched).self
    /\ BankFrame

SleepTask ==
    \E task_id \in TaskIds, ticks \in SleepTicks :
        /\ priority_sched' =
              sleep_task(priority_sched, task_id, ticks, TASK_TABLE[task_id].priority).self
        /\ BankFrame

WakeSleepingTasks ==
    /\ priority_sched' = wake_sleeping_tasks(priority_sched).self
    /\ BankFrame

Tick ==
    /\ priority_sched.current_tick < MaxTick
    /\ priority_sched' = PriorityScheduler_tick(priority_sched)
    /\ BankFrame

NextBank ==
    \/ EnqueueTask
    \/ SelectNext
    \/ SleepTask
    \/ WakeSleepingTasks
    \/ Tick

SpecBank == InitBank /\ [][NextBank]_vars

----------------------------------------------------------------------------
(* Reading the data structures *)

\* the ids a circular buffer of capacity cap holds, front first
Contents(q, cap) == [i \in 1..q.count |-> q.tasks[(q.head + i - 1) % cap]]

ReadyContents(self, p) == Contents(self.ready_queues[p], MAX_TASKS)

RunQueueContents(k) == Contents(k.SCHED.runqueue, SCHED_MAX_TASKS)

IsPrefix(s, t) == Len(s) <= Len(t) /\ \A i \in 1..Len(s) : s[i] = t[i]

\* how often x occurs in the sequence s
Occurrences(s, x) == Cardinality({i \in 1..Len(s) : s[i] = x})

Slots == 0..(MAX_TASKS - 1)

\* the slots a wake pass at the current tick expires
ExpiredSlots(self) ==
    {i \in Slots : self.sleeping_tasks[i].valid
                   /\ self.sleeping_tasks[i].wake_tick <= self.current_tick}

SleepTableFull(self) == \A i \in Slots : self.sleeping_tasks[i].valid

----------------------------------------------------------------------------
(* C1: in every reachable state of the ready-queue bank, select_next       *)
(* returns the front task of the highest-priority non-empty queue and pops *)
(* it from that queue only; it returns None exactly when all three queues  *)
(* are empty.                                                              *)

C1_SelectNextHighestFront ==
    LET rq == priority_sched.ready_queues
        r == select_next(priority_sched)
    IN  /\ (r.ret = None) <=> (\A p \in TaskPriority : rq[p].count = 0)
        /\ r.ret # None =>
              \E p \in TaskPriority :
                  /\ rq[p].count > 0
                  /\ \A q \in TaskPriority : q > p => rq[q].count = 0
                  /\ r.ret = rq[p].tasks[rq[p].head]
                  /\ ReadyContents(r.self, p) = Tail(ReadyContents(priority_sched, p))
                  /\ \A q \in TaskPriority :
                        q # p => r.self.ready_queues[q] = rq[q]

\* two queues are non-empty, the higher one after earlier pops, and
\* select_next takes the front of the higher one
C1_Witness ==
    \E p, q \in TaskPriority :
        /\ p < q
        /\ priority_sched.ready_queues[p].count > 0
        /\ priority_sched.ready_queues[q].count > 0
        /\ priority_sched.ready_queues[q].head # 0
        /\ select_next(priority_sched).ret = Head(ReadyContents(priority_sched, q))
        /\ Head(ReadyContents(priority_sched, q)) # Head(ReadyContents(priority_sched, p))

(* C2: FIFO within a priority.  In every step each ready queue either      *)
(* keeps its contents, gains entries at the back, or loses exactly its     *)
(* front entry, and then the step is select_next returning that entry: so  *)
(* of two tasks in a queue the one enqueued first is returned first, also  *)
(* when head and tail have wrapped around the end of the buffer.           *)

C2_FifoWithinPriority ==
    [][\A p \in TaskPriority :
          LET old == ReadyContents(priority_sched, p)
              new == ReadyContents(priority_sched', p)
          IN  \/ IsPrefix(old, new)
              \/ /\ old # <<>>
                 /\ new = Tail(old)
                 /\ select_next(priority_sched).ret = Head(old)
                 /\ priority_sched' = select_next(priority_sched).self]_vars

\* a queue holding two different tasks across the end of its buffer
C2_Witness ==
    \E p \in TaskPriority :
        LET q == priority_sched.ready_queues[p]
        IN  /\ q.count >= 2
            /\ q.head + q.count > MAX_TASKS
            /\ ReadyContents(priority_sched, p)[1] # ReadyContents(priority_sched, p)[2]

(* C3: in every reachable state of the bank (after every enqueue_task,     *)
(* select_next and wake_sleeping_tasks), bit p of non_empty_queues is set  *)
(* if and only if ready_queues[p] holds at least one task.                 *)

C3_BitmapMatchesQueues ==
    \A p \in TaskPriority :
        BitTest(priority_sched.non_empty_queues, p)
            <=> priority_sched.ready_queues[p].count > 0

\* a wake pass has filled one queue and select_next has emptied another
C3_Witness ==
    \E p, q \in TaskPriority :
        /\ priority_sched.ready_queues[p].count > 0
        /\ priority_sched.ready_queues[q].count = 0
        /\ priority_sched.ready_queues[q].head # 0
        /\ \E i \in Slots :
              /\ ~priority_sched.sleeping_tasks[i].valid
              /\ priority_sched.sleeping_tasks[i].task_id # 0
              /\ priority_sched.sleeping_tasks[i].priority = p

\* the tasks whose control block says Running
RunningTasks(k) == {t \in AllTaskIds : k.TASK_TABLE[t].state = "Running"}

----------------------------------------------------------------------------
(* C5: in every reachable state of the kernel at most one task has state   *)
(* Running and a Running task is the one recorded in current; and a        *)
(* scheduling decision (schedule_next) taken in any reachable state leaves *)
(* exactly the task it recorded in current with state Running.             *)
C5_SingleRunningIsCurrent ==
    /\ Cardinality(RunningTasks(kernel)) <= 1
    /\ \A t \in RunningTasks(kernel) : SCHED.current = t
    /\ LET k == schedule_next(kernel).k
       IN  /\ Cardinality(RunningTasks(k)) <= 1
           /\ k.SCHED.current # None => RunningTasks(k) = {k.SCHED.current}

\* a second task is current after the first one ran and went back to the run queue
C5_Witness ==
    /\ SCHED.current = 2
    /\ TASK_TABLE[2].state = "Running"
    /\ TASK_TABLE[1].state = "Ready"
    /\ RunQueueContents(kernel) = <<1>>

----------------------------------------------------------------------------
(* C6: round-robin.  While n tasks are spawned (none sleeping), any n      *)
(* consecutive scheduler ticks make n different tasks current, the next    *)
(* tick makes the first of them current again, and when all n were spawned *)
(* before the first tick the order is the spawn order 1, 2, .., n, 1, ..   *)
C6_RoundRobin ==
    /\ \A i \in 1..Len(run_order) :
          LET n == run_order[i].spawned
          IN  (n >= 1 /\ i + n <= Len(run_order)
                /\ \A j \in i..(i + n) : run_order[j].spawned = n)
              => /\ {run_order[j].current : j \in i..(i + n - 1)} = 1..n
                 /\ run_order[i + n].current = run_order[i].current
    /\ \A i \in 1..Len(run_order) :
          LET n == run_order[1].spawned
          IN  (n >= 1 /\ run_order[i].spawned = n)
              => run_order[i].current = ((i - 1) % n) + 1

\* two tasks spawned, four ticks: A, B, A, B
C6_Witness ==
    /\ Len(run_order) = 4
    /\ \A i \in 1..4 : run_order[i].spawned = 2
    /\ [i \in 1..4 |-> run_order[i].current] = <<1, 2, 1, 2>>

\* how often task t occurs in the run queue and the three ready queues together
QueuedCount(k, t) ==
    Occurrences(RunQueueContents(k), t)
        + Occurrences(ReadyContents(k.priority_sched, Low), t)
        + Occurrences(ReadyContents(k.priority_sched, Normal), t)
        + Occurrences(ReadyContents(k.priority_sched, High), t)

\* the valid sleep slots that hold task t
SlotsOf(self, t) ==
    {i \in Slots : self.sleeping_tasks[i].valid /\ self.sleeping_tasks[i].task_id = t}

\* n timer ticks with nothing else happening: each increments current_tick
\* and runs the wake pass
RECURSIVE tick_and_wake(_, _)
tick_and_wake(self, n) ==
    IF n = 0 THEN self
    ELSE tick_and_wake(wake_sleeping_tasks(PriorityScheduler_tick(self)).self, n - 1)

----------------------------------------------------------------------------
(* C4: in every reachable state of the running kernel, for every spawned   *)
(* task: Ready => it occurs exactly once over all ready queues; Sleeping   *)
(* => it holds exactly one sleep slot and is in no ready queue; Running => *)
(* it is current and is in no ready queue and no sleep slot.               *)
C4_TaskPlacement ==
    ~panicked =>
        \A t \in TaskIds :
            LET state == TASK_TABLE[t].state
                queued == QueuedCount(kernel, t)
                slots == Cardinality(SlotsOf(priority_sched, t))
            IN  /\ state = "Ready" => queued = 1
                /\ state = "Sleeping" => slots = 1 /\ queued = 0
                /\ state = "Running" => SCHED.current = t /\ queued = 0 /\ slots = 0

----------------------------------------------------------------------------
(* C7: wake timing, for the bank in any reachable state.  sleep_task at    *)
(* tick c records wake_tick = c + k in a free slot and touches nothing     *)
(* else; a wake pass leaves every valid slot with wake_tick > current_tick *)
(* unchanged and enqueues nothing for it, and invalidates every valid slot *)
(* with wake_tick <= current_tick and appends its task to the ready queue  *)
(* of the slot's priority; after the pass no valid slot is expired.        *)
C7_WakeTiming ==
    LET self == priority_sched
        w == wake_sleeping_tasks(self).self
        expired(t, p) == {i \in ExpiredSlots(self) :
                             /\ self.sleeping_tasks[i].task_id = t
                             /\ self.sleeping_tasks[i].priority = p}
    IN  /\ \A t \in TaskIds, k \in SleepTicks :
              LET r == sleep_task(self, t, k, TASK_TABLE[t].priority)
              IN  r.ret =>
                    \E i \in Slots :
                        /\ ~self.sleeping_tasks[i].valid
                        /\ r.self = [self EXCEPT !.sleeping_tasks[i] =
                                        [task_id |-> t, wake_tick |-> self.current_tick + k,
                                         priority |-> TASK_TABLE[t].priority, valid |-> TRUE]]
        /\ \A i \in Slots \ ExpiredSlots(self) :
              w.sleeping_tasks[i] = self.sleeping_tasks[i]
        /\ \A i \in ExpiredSlots(self) : ~w.sleeping_tasks[i].valid
        /\ \A t \in AllTaskIds, p \in TaskPriority :
              Occurrences(ReadyContents(w, p), t)
                  = Occurrences(ReadyContents(self, p), t) + Cardinality(expired(t, p))
        /\ \A p \in TaskPriority : IsPrefix(ReadyContents(self, p), ReadyContents(w, p))
        /\ ExpiredSlots(w) = {}

----------------------------------------------------------------------------
(* C8: sleep/wake round trip, for the bank in any reachable state in which *)
(* task t holds no sleep slot and no other sleeper is due within k ticks:  *)
(* after a successful sleep_task(t, k, p) and exactly k ticks, each        *)
(* followed by the wake pass, t is the last entry of ready queue p and     *)
(* holds no sleep slot.                                                    *)
C8_SleepWakeRoundTrip ==
    \A t \in TaskIds, k \in SleepTicks :
        LET self == priority_sched
            p == TASK_TABLE[t].priority
            r == sleep_task(self, t, k, p)
            after == tick_and_wake(r.self, k)
            q == ReadyContents(after, p)
        IN  (/\ r.ret
             /\ SlotsOf(self, t) = {}
             /\ \A i \in Slots : self.sleeping_tasks[i].valid
                                    => self.sleeping_tasks[i].wake_tick > self.current_tick + k)
            => /\ Len(q) = Len(ReadyContents(self, p)) + 1
               /\ q[Len(q)] = t
               /\ SlotsOf(after, t) = {}

----------------------------------------------------------------------------
(* C9: a sys_sleep(ticks) call with ticks > 0 that returned 0 returned at  *)
(* a tick >= the tick of the call + ticks; and a task suspended in         *)
(* sys_sleep whose deadline has not come is in no ready queue and is not   *)
(* the current task.                                                       *)
C9_SleepReturnsAfterDeadline ==
    /\ (last.task # None /\ last.ticks > 0 /\ last.ret = 0)
          => last.ret_tick >= last.call_tick + last.ticks
    /\ \A t \in TaskIds :
          (suspended[t] # NoCall
             /\ priority_sched.current_tick < suspended[t].call_tick + suspended[t].ticks)
          => QueuedCount(kernel, t) = 0 /\ SCHED.current # t

----------------------------------------------------------------------------
(* C10: sleep-table overflow has no side effects.  In every reachable      *)
(* state whose sleep table has no free slot, sleep_task returns false and  *)
(* leaves the scheduler as it was; and sys_sleep(ticks > 0) by the current *)
(* task returns -1 without yielding, having changed nothing but the        *)
(* dispatcher's syscall counter: sleep_count, every queue and slot, and    *)
(* current (still Running) are as before.                                  *)
C10_SleepTableOverflow ==
    SleepTableFull(priority_sched) =>
        /\ \A t \in TaskIds, k \in SleepTicks, p \in TaskPriority :
              sleep_task(priority_sched, t, k, p) = [self |-> priority_sched, ret |-> FALSE]
        /\ (SCHED.current # None /\ ~panicked) =>
              \A ticks \in SleepTicks :
                  LET r == syscall_dispatcher_sleep(kernel, ticks)
                  IN  /\ r.ret = -1
                      /\ ~r.yielded
                      /\ r.k = increment_syscall(kernel, SYS_SLEEP)
                      /\ r.k.METRICS.sleep_count = METRICS.sleep_count
                      /\ r.k.SCHED.current = SCHED.current
                      /\ r.k.TASK_TABLE[SCHED.current].state = "Running"

\* a sys_sleep call by the current task has just failed on a full sleep table
C10_Witness ==
    /\ SleepTableFull(priority_sched)
    /\ last.task # None /\ last.task = SCHED.current
    /\ last.ticks > 0
    /\ last.ret = -1
    /\ last.ret_tick = priority_sched.current_tick

----------------------------------------------------------------------------
----------------------------------------------------------------------------
(* C12: in every state reached by any interleaving of preempt_disable and  *)
(* preempt_enable calls (with everything else the kernel does) the counter *)
(* is >= 0; preempt_enable leaves a counter of 0 at 0 and otherwise        *)
(* decrements it by 1, preempt_disable increments it by 1, neither touches *)
(* anything else; can_preempt holds iff the counter is 0, so after         *)
(* disable, disable, enable preemption is still off.                       *)
C12_PreemptCounter ==
    LET self == priority_sched
        n == self.preempt_disable_count
        nested == PriorityScheduler_preempt_enable(
                      PriorityScheduler_preempt_disable(
                          PriorityScheduler_preempt_disable(self)))
    IN  /\ n >= 0
        /\ PriorityScheduler_preempt_enable(self) =
              [self EXCEPT !.preempt_disable_count = IF n = 0 THEN 0 ELSE n - 1]
        /\ PriorityScheduler_preempt_disable(self) =
              [self EXCEPT !.preempt_disable_count = n + 1]
        /\ can_preempt(self) <=> n = 0
        /\ ~can_preempt(nested)
        /\ obs.preempt.op = "enable" =>
              n = IF obs.preempt.count = 0 THEN 0 ELSE obs.preempt.count - 1
        /\ obs.preempt.op = "disable" => n = obs.preempt.count + 1

\* preempt_enable was just called with the counter at 0
C12_Witness ==
    /\ obs.preempt = [op |-> "enable", count |-> 0]
    /\ priority_sched.preempt_disable_count = 0
    /\ can_preempt(priority_sched)

----------------------------------------------------------------------------
----------------------------------------------------------------------------
(* C16: in every reachable state, syscall_dispatcher called with an id     *)
(* outside 0..4 returns -1 and leaves the whole kernel state (METRICS, run *)
(* queue, ready queues, sleep table, current, tick) as it was; and the     *)
(* last call seen with such an id returned -1.                             *)
C16_UnknownSyscall ==
    /\ \A syscall_id \in SyscallIds \ (0..4) :
          \A arg1 \in ArgValues, arg2 \in ArgValues, arg3 \in ArgValues :
              LET r == syscall_dispatcher(kernel, syscall_id, arg1, arg2, arg3)
              IN  r.ret = -1 /\ r.returns /\ ~r.yielded /\ r.k = kernel
    /\ (obs.call.syscall_id # None /\ obs.call.syscall_id > 4)
          => obs.call.ret = -1 /\ obs.call.returns

\* the dispatcher was just called with an unknown id, after known ones
C16_Witness ==
    /\ obs.call.syscall_id > 4
    /\ obs.call.ret = -1
    /\ METRICS.syscall_count[SYS_WRITE] > 0
    /\ SCHED.current # None

----------------------------------------------------------------------------
(* C17: for every id in 0..4, syscall_count[id] equals the number of       *)
(* dispatcher calls made with that id; a call with id in 0..4 adds exactly *)
(* 1 to that entry and leaves the other entries alone, also when the       *)
(* handler fails or never returns (sys_exit); no step decreases a counter. *)
C17_SyscallCounters ==
    /\ [](/\ \A id \in 0..4 : METRICS.syscall_count[id] = obs.dispatched[id]
          /\ \A id \in 0..4, arg1 \in ArgValues, arg2 \in ArgValues, arg3 \in ArgValues :
                syscall_dispatcher(kernel, id, arg1, arg2, arg3).k.METRICS.syscall_count
                    = [METRICS.syscall_count EXCEPT ![id] = @ + 1])
    /\ [][\A id \in 0..4 : METRICS'.syscall_count[id] >= METRICS.syscall_count[id]]_vars

\* sys_exit (which never returns) and a failing handler have been counted
C17_Witness ==
    /\ obs.dispatched[SYS_EXIT] = 1
    /\ obs.dispatched[SYS_IPC_SEND] = 1
    /\ obs.call.syscall_id = SYS_IPC_SEND /\ obs.call.ret = -1
    /\ METRICS.syscall_count[SYS_EXIT] = 1
    /\ METRICS.syscall_count[SYS_IPC_SEND] = 1

----------------------------------------------------------------------------
(* C18: sys_write returns -1 for every fd other than 0 and then reads      *)
(* nothing from the buffer; for fd 0 it returns 0 when buf_ptr is null or  *)
(* len is 0, and otherwise reads the len bytes of the buffer and returns   *)
(* len; a write through the dispatcher changes nothing in the kernel but   *)
(* the syscall counter (no scheduler state).                               *)
C18_SysWrite ==
    \A fd \in ArgValues, buf_ptr \in ArgValues, len \in ArgValues :
        LET w == sys_write(fd, buf_ptr, len)
            r == syscall_dispatcher(kernel, SYS_WRITE, fd, buf_ptr, len)
        IN  /\ fd # 0 => w.ret = -1 /\ w.read = <<>> /\ w.text = "none"
            /\ (fd = 0 /\ (buf_ptr = 0 \/ len = 0)) => w.ret = 0 /\ w.read = <<>>
            /\ (fd = 0 /\ buf_ptr # 0 /\ len > 0)
                  => w.ret = len /\ w.read = from_raw_parts(buf_ptr, len)
            /\ r.ret = w.ret /\ r.returns /\ ~r.yielded
            /\ r.k = increment_syscall(kernel, SYS_WRITE)
            /\ r.k.SCHED = SCHED
            /\ r.k.priority_sched = priority_sched
            /\ r.k.TASK_TABLE = TASK_TABLE

\* the running task has just written MaxArg bytes to fd 0
C18_Witness ==
    /\ obs.call.syscall_id = SYS_WRITE
    /\ obs.call.ret = MaxArg
    /\ SCHED.current # None
    /\ \E t \in TaskIds : TASK_TABLE[t].state = "Sleeping" \/ SlotsOf(priority_sched, t) # {}

----------------------------------------------------------------------------
(* C14: for every int 0x80 trap taken, syscall_entry calls the dispatcher  *)
(* with syscall_id equal to RAX at entry and arg1, arg2, arg3 equal to     *)
(* RDI, RSI, RDX at entry.                                                 *)
C14_TrapArguments ==
    obs.trap.regs.rax # None =>
        obs.trap.args = <<obs.trap.regs.rax, obs.trap.regs.rdi,
                          obs.trap.regs.rsi, obs.trap.regs.rdx>>

----------------------------------------------------------------------------
(* C15: for every trap whose syscall returns, RAX at iretq equals the      *)
(* value syscall_dispatcher returned, whatever the caller's registers were *)
(* at entry.                                                               *)
C15_ReturnValueInRax ==
    (obs.trap.regs.rax # None /\ obs.trap.returns) => obs.trap.rax = obs.trap.ret

----------------------------------------------------------------------------
(* C19: a spawn_task call made when next_tid has reached the capacity, or  *)
(* when the TCB allocation fails, does not panic and leaves the run queue, *)
(* the task table and the current task as they were before the call.       *)
C19_SpawnFailsGracefully ==
    [][\A priority \in TaskPriority, alloc_ok \in BOOLEAN :
          (/\ ~panicked
           /\ SCHED.next_tid >= SCHED_MAX_TASKS \/ ~alloc_ok
           /\ kernel' = spawn_task(kernel, priority, alloc_ok).k)
          => /\ ~panicked'
             /\ SCHED'.runqueue = SCHED.runqueue
             /\ SCHED'.current = SCHED.current
             /\ TASK_TABLE' = TASK_TABLE]_vars

----------------------------------------------------------------------------
(* C20: over any sequence of init_scheduler and spawn_task calls, every    *)
(* TaskId returned by spawn_task is greater than every TaskId returned     *)
(* before it (hence distinct from all of them) and is never 0.             *)
C20_TaskIdsUniqueMonotonic ==
    \A i \in 1..Len(obs.returned) :
        /\ obs.returned[i] # 0
        /\ \A j \in 1..(i - 1) : obs.returned[j] < obs.returned[i]

----------------------------------------------------------------------------
(* C27: in every reachable state of the bank, enqueue_task(t, p) returns   *)
(* false exactly when ready queue p already holds MAX_TASKS entries, and   *)
(* then leaves the queues and the bitmap unchanged; otherwise it appends t *)
(* at the back of queue p, whose length grows by exactly 1, and leaves the *)
(* other two queues unchanged.                                             *)
C27_EnqueueTask ==
    \A t \in TaskIds, p \in TaskPriority :
        LET r == enqueue_task(priority_sched, t, p)
            full == TaskQueue_len(priority_sched.ready_queues[p]) = MAX_TASKS
        IN  /\ r.ret = ~full
            /\ full => r.self = priority_sched
            /\ ~full =>
                  /\ ReadyContents(r.self, p) = Append(ReadyContents(priority_sched, p), t)
                  /\ TaskQueue_len(r.self.ready_queues[p])
                        = TaskQueue_len(priority_sched.ready_queues[p]) + 1
                  /\ \A q \in TaskPriority \ {p} :
                        r.self.ready_queues[q] = priority_sched.ready_queues[q]
                  /\ r.self.sleeping_tasks = priority_sched.sleeping_tasks
                  /\ r.self.current_tick = priority_sched.current_tick

\* one queue is full (a further enqueue fails) while another holds one task
\* and has wrapped around (a further enqueue succeeds at index 0)
C27_Witness ==
    \E p \in TaskPriority, q \in TaskPriority :
        /\ p # q
        /\ TaskQueue_len(priority_sched.ready_queues[p]) = MAX_TASKS
        /\ TaskQueue_len(priority_sched.ready_queues[q]) = 1
        /\ priority_sched.ready_queues[q].tail = 0
        /\ priority_sched.ready_queues[q].head = MAX_TASKS - 1

----------------------------------------------------------------------------
(* C30: in every reachable state of the bank, a wake_sleeping_tasks call   *)
(* puts every task whose sleep slot it invalidates into the ready queue of *)
(* the priority stored in the slot, and returns the number of tasks it has *)
(* actually re-enqueued.                                                   *)
C30_WakeLosesNoTask ==
    LET r == wake_sleeping_tasks(priority_sched)
        expired == ExpiredSlots(priority_sched)
    IN  /\ \A i \in expired :
              LET slot == priority_sched.sleeping_tasks[i]
              IN  /\ ~r.self.sleeping_tasks[i].valid
                  /\ Occurrences(ReadyContents(r.self, slot.priority), slot.task_id)
                        = Occurrences(ReadyContents(priority_sched, slot.priority),
                                      slot.task_id)
                          + Cardinality({j \in expired :
                                 /\ priority_sched.sleeping_tasks[j].task_id = slot.task_id
                                 /\ priority_sched.sleeping_tasks[j].priority
                                       = slot.priority})
        /\ r.ret = PriorityScheduler_len(r.self) - PriorityScheduler_len(priority_sched)

----------------------------------------------------------------------------
(* C29: for every trap whose syscall returns, at iretq every saved         *)
(* register other than RAX (RBX, RBP, R12-R15, RCX, RDX, RSI, RDI, R8-R11) *)
(* holds the value it had at trap entry and the stack is exactly the       *)
(* interrupt frame the CPU pushed.                                         *)
C29_RegistersRestored ==
    (obs.trap.regs.rax # None /\ obs.trap.returns) =>
        /\ Registers \ {"rax"} \subseteq obs.trap.preserved
        /\ obs.trap.stack = obs.trap.frame

\* a task has returned from a sleep entered through int 0x80, and a trap
\* taken after that has returned as well
C29_Witness ==
    /\ obs.trap.regs.rax # None
    /\ obs.trap.returns
    /\ obs.trap.regs.r15 = MaxArg
    /\ obs.trap.stack = obs.trap.frame
    /\ obs.dispatched[SYS_SLEEP] > 0
    /\ last.task # None

----------------------------------------------------------------------------
(* C21: as long as no scheduling decision has been taken since             *)
(* init_scheduler, the run queue holds exactly the TaskIds spawn_task has  *)
(* returned, each once, in spawn order; and if exactly one task has been   *)
(* spawned, the next scheduling decision makes that task current.          *)
C21_SpawnedTasksQueued ==
    (run_order = <<>> /\ SCHED.current = None) =>
        /\ RunQueueContents(kernel) = obs.returned
        /\ SCHED.runqueue.count = Len(obs.returned)
        /\ \A t \in TaskIds : Occurrences(RunQueueContents(kernel), t) <= 1
        /\ \A i \in 1..Len(obs.returned) : obs.returned[i] = i
        /\ Len(obs.returned) = 1 =>
              LET r == schedule_next(kernel)
              IN  /\ r.k.SCHED.current = obs.returned[1]
                  /\ r.k.TASK_TABLE[obs.returned[1]].state = "Running"

\* every TaskId has been spawned and nothing has been scheduled yet
C21_Witness ==
    /\ run_order = <<>>
    /\ SCHED.current = None
    /\ ~panicked
    /\ Len(obs.returned) = SCHED_MAX_TASKS - 1
    /\ SCHED.runqueue.count = SCHED_MAX_TASKS - 1

----------------------------------------------------------------------------
(* C28: init_scheduler leaves the run queue empty, current None, next_tid  *)
(* 1 and the task table with exactly slot 0 occupied, both at boot and     *)
(* when called in any later state; and in every state reachable by         *)
(* spawn_task and scheduling ticks TaskId 0 is not in the run queue.       *)
C28_IdleNeverQueued ==
    /\ \A i \in 1..SCHED.runqueue.count : RunQueueContents(kernel)[i] # 0
    /\ (obs.returned = <<>> /\ run_order = <<>> /\ ~panicked) =>
          /\ SCHED.runqueue.count = 0
          /\ SCHED.current = None
          /\ SCHED.next_tid = 1
          /\ \A i \in AllTaskIds : get_task(kernel, i) <=> i = 0
    /\ LET k == init_scheduler_call(kernel, TRUE)
       IN  /\ k.SCHED.runqueue.count = 0
           /\ k.SCHED.current = None
           /\ k.SCHED.next_tid = 1
           /\ \A i \in AllTaskIds : get_task(k, i) <=> i = 0
           /\ k.panicked = panicked

\* all tasks spawned and the run queue has gone round more than once
C28_Witness ==
    /\ Len(run_order) = MaxRun
    /\ SCHED.next_tid = SCHED_MAX_TASKS
    /\ SCHED.current # None
    /\ SCHED.runqueue.count = SCHED_MAX_TASKS - 2
    /\ ~panicked

----------------------------------------------------------------------------
(* C22: every scheduling decision leaves some task in current; a decision  *)
(* taken when no task is ready (nothing has been spawned) selects the idle *)
(* task, TaskId 0, and marks it Running.                                   *)
C22_IdleFallback ==
    /\ \A i \in 1..Len(run_order) :
          /\ run_order[i].current # None
          /\ run_order[i].spawned = 0 => run_order[i].current = 0
    /\ Len(run_order) > 0 =>
          /\ SCHED.current # None
          /\ TASK_TABLE[SCHED.current].state = "Running"

----------------------------------------------------------------------------
(* C23: context_switch is never called with the same task as outgoing and  *)
(* incoming task: a tick whose scheduling decision picks the task that is  *)
(* already current performs no context switch.                             *)
C23_NoSelfSwitch ==
    cpu.switch.old # None => cpu.switch.old # cpu.switch.new

----------------------------------------------------------------------------
(* C26: the context slot of every spawned task only ever holds CPU state   *)
(* of that task's own thread (its initial context or state saved while the *)
(* task was executing), never the boot thread's or another task's; and     *)
(* whenever a spawned task is current, the CPU executes that task's own    *)
(* thread, which began at the task's trampoline and entry.                 *)
C26_ContextBelongsToTask ==
    /\ \A t \in TaskIds : cpu.context[t].thread = t
    /\ SCHED.current \in TaskIds => cpu.running = SCHED.current

----------------------------------------------------------------------------
(* C25: at the moment tick() calls context_switch, and at its return when  *)
(* it does not switch, neither the SCHED nor the TASK_TABLE lock is held,  *)
(* on every path through schedule_next; and no path takes a lock it holds. *)
C25_NoLockAcrossSwitch ==
    /\ cpu.switch.held = {}
    /\ held_after(tick_locks(kernel), {}) = {}
    /\ ~relocks(tick_locks(kernel), {})

\* the last tick switched between two different tasks, and ticks before it
\* took the paths without a switch
C25_Witness ==
    /\ cpu.switch.old \in TaskIds
    /\ cpu.switch.new \in TaskIds \ {cpu.switch.old}
    /\ cpu.switch.held = {}
    /\ Len(run_order) >= 3
    /\ run_order[1].current = None

----------------------------------------------------------------------------
(* C24: no timer interrupt ends up spinning on a scheduler lock: whenever  *)
(* an interrupt is taken in task context and its scheduling step asks for  *)
(* the SCHED or TASK_TABLE lock, the interrupted context does not hold it. *)
C24_NoInterruptDeadlock ==
    ~cpu.spinning

----------------------------------------------------------------------------
(* C31: in every state reachable by spawn_task and scheduling ticks the    *)
(* run queue holds fewer ids than its capacity, so the re-enqueue of the   *)
(* outgoing task in schedule_next succeeds; the ids in the run queue plus  *)
(* one for current, if set, number exactly the tasks spawned, each spawned *)
(* task being in exactly one of the two places, also after one more        *)
(* scheduling decision.                                                    *)
C31_NoTaskDropped ==
    LET n == SCHED.runqueue.count + (IF SCHED.current # None THEN 1 ELSE 0)
        k == schedule_next(kernel).k
    IN  /\ SCHED.runqueue.count <= SCHED_MAX_TASKS - 1
        /\ SCHED.current # None =>
              runqueue_push_back(SCHED.runqueue, SCHED.current).ret
        /\ n = Len(obs.returned)
        /\ \A i \in 1..Len(obs.returned) :
              Occurrences(RunQueueContents(kernel), obs.returned[i])
                  + (IF SCHED.current = obs.returned[i] THEN 1 ELSE 0) = 1
        /\ k.SCHED.runqueue.count + (IF k.SCHED.current # None THEN 1 ELSE 0) = n

\* every TaskId spawned, one task current, the others queued, and the run
\* queue's indices have wrapped around
C31_Witness ==
    /\ Len(obs.returned) = SCHED_MAX_TASKS - 1
    /\ SCHED.current \in TaskIds
    /\ SCHED.runqueue.count = SCHED_MAX_TASKS - 2
    /\ SCHED.runqueue.tail < SCHED.runqueue.head
    /\ ~panicked

=============================================================================
